---- MODULE Spec2Model ----
(***************************************************************************)
(* Model of controller_example.c: the SDL controller read example for the  *)
(* Atari VCS controllers.  main() initialises SDL, scans the attached      *)
(* joysticks once, opens each one either as an SDL_GameController or as an *)
(* SDL_Joystick, then polls events until SDL_QUIT or the escape key.       *)
(*                                                                         *)
(* SDL itself is the environment: the number of attached joysticks, the    *)
(* vendor and product a device index reports, whether an open succeeds and *)
(* what SDL_PollEvent returns are chosen nondeterministically.             *)
(***************************************************************************)
EXTENDS Integers, Sequences, FiniteSets, TLC

\* ---------------------------------------------------------------- bounds
\* Upper limit of what SDL_NumJoysticks() reports during the scan.
MaxDevices == 5

\* ------------------------------------------------------ program constants
ATARI_MANUFACTURER_ID == 12880
ATARI_CLASSIC_CONTROLLER_ID == 4097
ATARI_MODERN_CONTROLLER_ID == 4098
MAX_CONTROLLERS == 4
MAX_JOYSTICKS == 4
open_classic_as_controller == 0
NULL == 0
EXIT_SUCCESS == 0
EXIT_FAILURE == 1

\* SDL hat positions (Uint8 bit masks)
SDL_HAT_CENTERED == 0
SDL_HAT_UP == 1
SDL_HAT_RIGHT == 2
SDL_HAT_DOWN == 4
SDL_HAT_LEFT == 8
SDL_HAT_RIGHTUP == 3
SDL_HAT_RIGHTDOWN == 6
SDL_HAT_LEFTUP == 9
SDL_HAT_LEFTDOWN == 12
SDLK_ESCAPE == 27

\* ------------------------------------------------------------ environment
\* Vendor and product IDs a device index may report: the Atari vendor and
\* one other; the two known Atari products and one unknown.
Vendors == {ATARI_MANUFACTURER_ID, 1118}
Products == {ATARI_CLASSIC_CONTROLLER_ID, ATARI_MODERN_CONTROLLER_ID, 4099}

\* Uint8: the type of SDL_JoyHatEvent.value and of hat_to_string's argument
Uint8 == 0..255

\* Instance IDs events may carry: one per device index that can be attached,
\* plus one that no attached device has.
InstanceIDs == 0..MaxDevices

\* A handle is NULL or identifies the opened device: device index d is
\* opened as the non-null handle d + 1.
SDL_Open(d, ok) == IF ok THEN d + 1 ELSE NULL

\* SDL gives every device its own instance ID.
SDL_JoystickInstanceID(h) == h - 1

\* SDL_JoystickName / SDL_GameControllerName: the name of the device behind
\* the handle.
SDL_DeviceName(h) == <<"device", h - 1>>

VARIABLES
  pc,               \* position of main()
  i,                \* the scan loop's device index
  controllers,      \* static SDL_GameController *controllers[MAX_CONTROLLERS]
  num_controllers,  \* static int num_controllers
  joysticks,        \* static SDL_Joystick *joysticks[MAX_JOYSTICKS]
  num_joysticks,    \* static int num_joysticks
  done,             \* int done
  e,                \* SDL_Event e: the event last returned by SDL_PollEvent
  dev,              \* the scan iteration's locals: what SDL reported, mode, handle
  wr,               \* the array element the last step stored to
  out,              \* lines the last step printed to stdout
  err,              \* lines the last step printed to stderr
  exit_code         \* argument of exit(), -1 while running

vars == <<pc, i, controllers, num_controllers, joysticks, num_joysticks,
          done, e, dev, wr, out, err, exit_code>>

NoEvent == [type |-> "none", which |-> 0, num |-> 0, value |-> 0]
NoDev == [index |-> -1, vendor |-> 0, product |-> 0, is_gc |-> FALSE,
          mode |-> "none", handle |-> NULL, result |-> "none"]
NoWrite == [table |-> "none", index |-> 0]


\* A printed line: the format's fixed text, the device name and the two
\* values substituted into the format.
Line(text, name, num, val) ==
  [text |-> text, name |-> name, num |-> num, val |-> val]

\* SDL_JoystickNameForIndex(d): the same name the opened device reports.
SDL_JoystickNameForIndex(d) == <<"device", d>>

\* ----------------------------------------------------------- pure helpers

\* find_joystick: for( i=0; i<num_joysticks; ++i ) ... return i; return -1
RECURSIVE find_joystick_from(_, _)
find_joystick_from(k, id) ==
  IF k < num_joysticks
    THEN IF SDL_JoystickInstanceID(joysticks[k]) = id
           THEN k
           ELSE find_joystick_from(k + 1, id)
    ELSE -1

\* Variant: the loop starts at index 1
find_joystick_FromOne(id) == find_joystick_from(1, id)

find_joystick(id) == find_joystick_from(0, id)

\* find_controller: the same loop over controllers[0..num_controllers-1]
RECURSIVE find_controller_from(_, _)
find_controller_from(k, id) ==
  IF k < num_controllers
    THEN IF SDL_JoystickInstanceID(controllers[k]) = id
           THEN k
           ELSE find_controller_from(k + 1, id)
    ELSE -1

find_controller(id) == find_controller_from(0, id)

\* Variant: the switch lacks the SDL_HAT_RIGHTDOWN case
hat_to_string_NoRightDown(value) ==
  CASE value = SDL_HAT_LEFTUP -> "left-up"
    [] value = SDL_HAT_UP -> "up"
    [] value = SDL_HAT_RIGHTUP -> "right-up"
    [] value = SDL_HAT_LEFT -> "left"
    [] value = SDL_HAT_CENTERED -> "center"
    [] value = SDL_HAT_RIGHT -> "right"
    [] value = SDL_HAT_LEFTDOWN -> "left-down"
    [] value = SDL_HAT_DOWN -> "down"
    [] OTHER -> "<invalid value>"

\* hat_to_string: the switch over the nine SDL_HAT_* values
hat_to_string(value) ==
  CASE value = SDL_HAT_LEFTUP -> "left-up"
    [] value = SDL_HAT_UP -> "up"
    [] value = SDL_HAT_RIGHTUP -> "right-up"
    [] value = SDL_HAT_LEFT -> "left"
    [] value = SDL_HAT_CENTERED -> "center"
    [] value = SDL_HAT_RIGHT -> "right"
    [] value = SDL_HAT_LEFTDOWN -> "left-down"
    [] value = SDL_HAT_DOWN -> "down"
    [] value = SDL_HAT_RIGHTDOWN -> "right-down"
    [] OTHER -> "<invalid value>"

\* Variant: the classic controller is opened as a game controller
Classify_ClassicAsController(vendor, product, is_gc) ==
  IF vendor = ATARI_MANUFACTURER_ID
    THEN CASE product = ATARI_CLASSIC_CONTROLLER_ID -> "OPEN_AS_CONTROLLER"
           [] product = ATARI_MODERN_CONTROLLER_ID -> "OPEN_AS_CONTROLLER"
           [] OTHER -> "UNKNOWN"
    ELSE IF is_gc THEN "OPEN_AS_CONTROLLER" ELSE "OPEN_AS_JOYSTICK"

\* Variant: an unknown Atari product is opened as a joystick instead of
\* ending the program
Classify_UnknownAsJoystick(vendor, product, is_gc) ==
  IF vendor = ATARI_MANUFACTURER_ID
    THEN CASE product = ATARI_CLASSIC_CONTROLLER_ID ->
                IF open_classic_as_controller # 0
                  THEN "OPEN_AS_CONTROLLER"
                  ELSE "OPEN_AS_JOYSTICK"
           [] product = ATARI_MODERN_CONTROLLER_ID -> "OPEN_AS_CONTROLLER"
           [] OTHER -> "OPEN_AS_JOYSTICK"
    ELSE IF is_gc THEN "OPEN_AS_CONTROLLER" ELSE "OPEN_AS_JOYSTICK"

\* The mode the scan chooses for a device: the vendor test, then the switch
\* over the product for an Atari device, SDL_IsGameController otherwise.
\* "UNKNOWN" is the switch's default branch, which exits.
Classify(vendor, product, is_gc) ==
  IF vendor = ATARI_MANUFACTURER_ID
    THEN CASE product = ATARI_CLASSIC_CONTROLLER_ID ->
                IF open_classic_as_controller # 0
                  THEN "OPEN_AS_CONTROLLER"
                  ELSE "OPEN_AS_JOYSTICK"
           [] product = ATARI_MODERN_CONTROLLER_ID -> "OPEN_AS_CONTROLLER"
           [] OTHER -> "UNKNOWN"
    ELSE IF is_gc THEN "OPEN_AS_CONTROLLER" ELSE "OPEN_AS_JOYSTICK"

\* Lines printed while classifying: the scan line, then the identification.
ScanLines(d, vendor, product) ==
  <<Line("Scanning attached joystick", SDL_JoystickNameForIndex(d), d, "")>>
  \o (IF vendor = ATARI_MANUFACTURER_ID
        THEN CASE product = ATARI_CLASSIC_CONTROLLER_ID ->
                    <<Line("Identified Atari Classic controller", <<>>, 0, "")>>
               [] product = ATARI_MODERN_CONTROLLER_ID ->
                    <<Line("Identified Atari Modern controller", <<>>, 0, "")>>
               [] OTHER -> <<>>
        ELSE <<>>)

\* Variant: the bound test is off by one
ControllerSlotFree_OffByOne(mode) ==
  mode = "OPEN_AS_CONTROLLER" /\ num_controllers <= MAX_CONTROLLERS

\* mode == OPEN_AS_CONTROLLER && num_controllers < MAX_CONTROLLERS
ControllerSlotFree(mode) ==
  mode = "OPEN_AS_CONTROLLER" /\ num_controllers < MAX_CONTROLLERS

\* mode == OPEN_AS_JOYSTICK && num_joysticks < MAX_JOYSTICKS
JoystickSlotFree(mode) ==
  mode = "OPEN_AS_JOYSTICK" /\ num_joysticks < MAX_JOYSTICKS

\* Variant: the index is not advanced
NextIndex_Stuck(d) == d

\* ++i: the device index of the next iteration
NextIndex(d) == d + 1

\* ------------------------------------------------------------------ Init
\* The state when main() reaches SDL_Init: both counts are 0, the static
\* tables hold null pointers, done is not yet initialised.
Init ==
  /\ pc = "init"
  /\ i = 0
  /\ controllers = [k \in 0..(MAX_CONTROLLERS - 1) |-> NULL]
  /\ num_controllers = 0
  /\ joysticks = [k \in 0..(MAX_JOYSTICKS - 1) |-> NULL]
  /\ num_joysticks = 0
  /\ done \in {0, 1}
  /\ e = NoEvent
  /\ dev = NoDev
  /\ wr = NoWrite
  /\ out = <<>>
  /\ err = <<>>
  /\ exit_code = -1

\* exit(code): the process ends; nothing else changes.
Exit(code) ==
  /\ pc' = "exited"
  /\ exit_code' = code

\* --------------------------------------------------------------- SDL_Init
SDL_InitOk ==
  /\ pc = "init"
  /\ pc' = "scan"
  /\ i' = 0
  /\ out' = <<>>
  /\ err' = <<>>
  /\ UNCHANGED <<controllers, num_controllers, joysticks, num_joysticks,
                 done, e, dev, wr, exit_code>>

SDL_InitFail ==
  /\ pc = "init"
  /\ Exit(EXIT_FAILURE)
  /\ out' = <<>>
  /\ err' = <<Line("Error initializing SDL", <<>>, 0, "")>>
  /\ UNCHANGED <<i, controllers, num_controllers, joysticks, num_joysticks,
                 done, e, dev, wr>>

\* --------------------------------------------------------------- the scan
\* One iteration of for( i=0; i<SDL_NumJoysticks(); ++i ): SDL reports n
\* attached joysticks with i < n, the vendor, product and controller flag
\* of index i, and whether opening it succeeds.
ScanDevice ==
  /\ pc = "scan"
  /\ \E n \in 0..MaxDevices, vendor \in Vendors, product \in Products,
        is_gc \in BOOLEAN, ok \in BOOLEAN :
       /\ i < n
       /\ LET mode == Classify(vendor, product, is_gc)
              h == SDL_Open(i, ok)
              seen == [index |-> i, vendor |-> vendor, product |-> product,
                       is_gc |-> is_gc, mode |-> mode, handle |-> NULL,
                       result |-> "none"]
          IN
          /\ out' = ScanLines(i, vendor, product)
          /\ IF mode = "UNKNOWN"
               THEN /\ Exit(EXIT_FAILURE)
                    /\ err' = <<Line("Unknown Atari controller",
                                     SDL_JoystickNameForIndex(i), 0, "")>>
                    /\ dev' = [seen EXCEPT !.result = "rejected"]
                    /\ wr' = NoWrite
                    /\ UNCHANGED <<i, controllers, num_controllers,
                                   joysticks, num_joysticks>>
               ELSE IF ControllerSlotFree(mode)
               THEN IF h = NULL
                      THEN /\ Exit(EXIT_FAILURE)
                           /\ err' = <<Line("Failed to open controller",
                                            SDL_JoystickNameForIndex(i), 0, "")>>
                           /\ dev' = [seen EXCEPT !.result = "open_failed"]
                           /\ wr' = NoWrite
                           /\ UNCHANGED <<i, controllers, num_controllers,
                                          joysticks, num_joysticks>>
                      ELSE /\ controllers' =
                                [controllers EXCEPT ![num_controllers] = h]
                           /\ wr' = [table |-> "controllers",
                                     index |-> num_controllers]
                           /\ num_controllers' = num_controllers + 1
                           /\ dev' = [seen EXCEPT !.handle = h,
                                                  !.result = "controller"]
                           /\ i' = NextIndex(i)
                           /\ err' = <<>>
                           /\ UNCHANGED <<pc, exit_code, joysticks,
                                          num_joysticks>>
               ELSE IF JoystickSlotFree(mode)
               THEN IF h = NULL
                      THEN /\ Exit(EXIT_FAILURE)
                           /\ err' = <<Line("Failed to open joystick",
                                            SDL_JoystickNameForIndex(i), 0, "")>>
                           /\ dev' = [seen EXCEPT !.result = "open_failed"]
                           /\ wr' = NoWrite
                           /\ UNCHANGED <<i, controllers, num_controllers,
                                          joysticks, num_joysticks>>
                      ELSE /\ joysticks' =
                                [joysticks EXCEPT ![num_joysticks] = h]
                           /\ wr' = [table |-> "joysticks",
                                     index |-> num_joysticks]
                           /\ num_joysticks' = num_joysticks + 1
                           /\ dev' = [seen EXCEPT !.handle = h,
                                                  !.result = "joystick"]
                           /\ i' = NextIndex(i)
                           /\ err' = <<>>
                           /\ UNCHANGED <<pc, exit_code, controllers,
                                          num_controllers>>
               ELSE /\ dev' = [seen EXCEPT !.result = "skipped"]
                    /\ wr' = NoWrite
                    /\ i' = NextIndex(i)
                    /\ err' = <<>>
                    /\ UNCHANGED <<pc, exit_code, controllers, num_controllers,
                                   joysticks, num_joysticks>>
  /\ UNCHANGED <<done, e>>

\* The loop test fails (i >= SDL_NumJoysticks()); done = 0 and the event
\* loop is entered.  The iteration's locals go out of scope.
ScanDone ==
  /\ pc = "scan"
  /\ \E n \in 0..MaxDevices : ~(i < n)
  /\ done' = 0
  /\ pc' = "outer"
  /\ dev' = NoDev
  /\ wr' = NoWrite
  /\ out' = <<>>
  /\ err' = <<>>
  /\ UNCHANGED <<i, controllers, num_controllers, joysticks, num_joysticks,
                 e, exit_code>>


\* ------------------------------------------------------------- SDL events
\* SDL_Event is a union: type is shared by all members, and jbutton.which,
\* jaxis.which, jhat.which, cbutton.which and caxis.which are one and the
\* same SDL_JoystickID (field which).  num is the member's button, axis or
\* hat number; value is jaxis.value, jhat.value, caxis.value or
\* key.keysym.sym.
Event(type, which, num, value) ==
  [type |-> type, which |-> which, num |-> num, value |-> value]

Keys == {SDLK_ESCAPE, 97}
Numbers == {1}
AxisValues == {-32768, 32767}
HatValues == {SDL_HAT_CENTERED, SDL_HAT_LEFTUP, SDL_HAT_UP + SDL_HAT_DOWN}

\* Event types the switch has no case for (two of the many)
OtherTypes == {"SDL_KEYUP", "SDL_JOYDEVICEADDED"}

QuitEvents == {Event("SDL_QUIT", 0, 0, 0)}
KeyDownEvents == {Event("SDL_KEYDOWN", 0, 0, k) : k \in Keys}
JoyButtonEvents ==
  {Event(t, w, b, 0) : t \in {"SDL_JOYBUTTONDOWN", "SDL_JOYBUTTONUP"},
                       w \in InstanceIDs, b \in Numbers}
JoyAxisEvents ==
  {Event("SDL_JOYAXISMOTION", w, a, v) :
     w \in InstanceIDs, a \in Numbers, v \in AxisValues}
JoyHatEvents ==
  {Event("SDL_JOYHATMOTION", w, 0, v) : w \in InstanceIDs, v \in HatValues}
ControllerButtonEvents ==
  {Event(t, w, b, 0) :
     t \in {"SDL_CONTROLLERBUTTONDOWN", "SDL_CONTROLLERBUTTONUP"},
     w \in InstanceIDs, b \in Numbers}
ControllerAxisEvents ==
  {Event("SDL_CONTROLLERAXISMOTION", w, a, v) :
     w \in InstanceIDs, a \in Numbers, v \in AxisValues}
OtherEvents ==
  {Event(t, w, 0, SDLK_ESCAPE) : t \in OtherTypes, w \in InstanceIDs}

\* e.jbutton.type == SDL_JOYBUTTONDOWN ? "DOWN" : "UP"
JoyButtonState(type) == IF type = "SDL_JOYBUTTONDOWN" THEN "DOWN" ELSE "UP"

\* e.cbutton.type == SDL_CONTROLLERBUTTONDOWN ? "DOWN" : "UP"
ControllerButtonState(type) ==
  IF type = "SDL_CONTROLLERBUTTONDOWN" THEN "DOWN" ELSE "UP"

\* Lines each case of the switch prints for event ev
JoyButtonLines(ev) ==
  LET index == find_joystick(ev.which) IN
  IF index >= 0
    THEN <<Line("button", SDL_DeviceName(joysticks[index]), ev.num,
                JoyButtonState(ev.type))>>
    ELSE <<>>

JoyAxisLines(ev) ==
  LET index == find_joystick(ev.which) IN
  IF index >= 0
    THEN <<Line("axis", SDL_DeviceName(joysticks[index]), ev.num,
                ToString(ev.value))>>
    ELSE <<>>

\* Variant: the hat case looks the device up among the controllers
JoyHatLines_FindController(ev) ==
  LET index == find_controller(ev.which) IN
  IF index >= 0
    THEN <<Line("hat", SDL_DeviceName(joysticks[index]), ev.num,
                hat_to_string(ev.value))>>
    ELSE <<>>

JoyHatLines(ev) ==
  LET index == find_joystick(ev.which) IN
  IF index >= 0
    THEN <<Line("hat", SDL_DeviceName(joysticks[index]), ev.num,
                hat_to_string(ev.value))>>
    ELSE <<>>

ControllerButtonLines(ev) ==
  LET index == find_controller(ev.which) IN
  IF index >= 0
    THEN <<Line("button", SDL_DeviceName(controllers[index]), ev.num,
                ControllerButtonState(ev.type))>>
    ELSE <<>>

ControllerAxisLines(ev) ==
  LET index == find_controller(ev.which) IN
  IF index >= 0
    THEN <<Line("axis", SDL_DeviceName(controllers[index]), ev.num,
                ToString(ev.value))>>
    ELSE <<>>

\* ---------------------------------------------------------- the event loop
\* while(!done): done is 0, the inner loop starts polling
LoopEnter ==
  /\ pc = "outer"
  /\ done = 0
  /\ pc' = "poll"
  /\ out' = <<>>
  /\ UNCHANGED <<i, controllers, num_controllers, joysticks, num_joysticks,
                 done, e, dev, wr, err, exit_code>>

\* while(!done): done is set, control leaves the loop
LoopExit ==
  /\ pc = "outer"
  /\ done # 0
  /\ pc' = "quit"
  /\ out' = <<>>
  /\ UNCHANGED <<i, controllers, num_controllers, joysticks, num_joysticks,
                 done, e, dev, wr, err, exit_code>>

\* SDL_PollEvent returns 0: no event pending
PollEmpty ==
  /\ pc = "poll"
  /\ pc' = "outer"
  /\ out' = <<>>
  /\ UNCHANGED <<i, controllers, num_controllers, joysticks, num_joysticks,
                 done, e, dev, wr, err, exit_code>>

\* What every case of the switch leaves alone
HandlerFrame ==
  /\ pc' = "poll"
  /\ UNCHANGED <<i, controllers, num_controllers, joysticks, num_joysticks,
                 dev, wr, err, exit_code>>

\* case SDL_QUIT
HandleQuit ==
  /\ pc = "poll"
  /\ \E ev \in QuitEvents : e' = ev
  /\ done' = 1
  /\ out' = <<>>
  /\ HandlerFrame

\* Variant: any key ends the program
HandleKeyDown_AnyKey ==
  /\ pc = "poll"
  /\ \E ev \in KeyDownEvents : e' = ev
  /\ done' = 1
  /\ out' = <<>>
  /\ HandlerFrame

\* Variant: done is assigned the result of the key test
HandleKeyDown_Assign ==
  /\ pc = "poll"
  /\ \E ev \in KeyDownEvents :
       /\ e' = ev
       /\ done' = IF ev.value = SDLK_ESCAPE THEN 1 ELSE 0
  /\ out' = <<>>
  /\ HandlerFrame

\* case SDL_KEYDOWN
HandleKeyDown ==
  /\ pc = "poll"
  /\ \E ev \in KeyDownEvents :
       /\ e' = ev
       /\ done' = IF ev.value = SDLK_ESCAPE THEN 1 ELSE done
  /\ out' = <<>>
  /\ HandlerFrame

\* case SDL_JOYBUTTONDOWN: case SDL_JOYBUTTONUP
HandleJoyButton ==
  /\ pc = "poll"
  /\ \E ev \in JoyButtonEvents :
       /\ e' = ev
       /\ out' = JoyButtonLines(ev)
  /\ UNCHANGED done
  /\ HandlerFrame

\* case SDL_JOYAXISMOTION
HandleJoyAxis ==
  /\ pc = "poll"
  /\ \E ev \in JoyAxisEvents :
       /\ e' = ev
       /\ out' = JoyAxisLines(ev)
  /\ UNCHANGED done
  /\ HandlerFrame

\* case SDL_JOYHATMOTION (the device is read through e.jaxis.which)
HandleJoyHat ==
  /\ pc = "poll"
  /\ \E ev \in JoyHatEvents :
       /\ e' = ev
       /\ out' = JoyHatLines(ev)
  /\ UNCHANGED done
  /\ HandlerFrame

\* case SDL_CONTROLLERBUTTONDOWN: case SDL_CONTROLLERBUTTONUP
HandleControllerButton ==
  /\ pc = "poll"
  /\ \E ev \in ControllerButtonEvents :
       /\ e' = ev
       /\ out' = ControllerButtonLines(ev)
  /\ UNCHANGED done
  /\ HandlerFrame

\* case SDL_CONTROLLERAXISMOTION
HandleControllerAxis ==
  /\ pc = "poll"
  /\ \E ev \in ControllerAxisEvents :
       /\ e' = ev
       /\ out' = ControllerAxisLines(ev)
  /\ UNCHANGED done
  /\ HandlerFrame

\* Variant: a device-added event opens the device as a joystick
HandleOther_HotPlug ==
  /\ pc = "poll"
  /\ \E ev \in OtherEvents :
       /\ e' = ev
       /\ IF ev.type = "SDL_JOYDEVICEADDED" /\ num_joysticks < MAX_JOYSTICKS
            THEN /\ joysticks' = [joysticks EXCEPT
                                    ![num_joysticks] = SDL_Open(ev.which, TRUE)]
                 /\ num_joysticks' = num_joysticks + 1
            ELSE UNCHANGED <<joysticks, num_joysticks>>
  /\ out' = <<>>
  /\ pc' = "poll"
  /\ UNCHANGED <<i, controllers, num_controllers, dev, wr, err, exit_code, done>>

\* Any other event type: the switch has no case and no default
HandleOther ==
  /\ pc = "poll"
  /\ \E ev \in OtherEvents : e' = ev
  /\ out' = <<>>
  /\ UNCHANGED done
  /\ HandlerFrame

\* SDL_Quit(); exit(EXIT_SUCCESS);
QuitAndExit ==
  /\ pc = "quit"
  /\ Exit(EXIT_SUCCESS)
  /\ out' = <<>>
  /\ UNCHANGED <<i, controllers, num_controllers, joysticks, num_joysticks,
                 done, e, dev, wr, err>>

Handle ==
  \/ HandleQuit
  \/ HandleKeyDown
  \/ HandleJoyButton
  \/ HandleJoyAxis
  \/ HandleJoyHat
  \/ HandleControllerButton
  \/ HandleControllerAxis
  \/ HandleOther

Next ==
  \/ SDL_InitOk
  \/ SDL_InitFail
  \/ ScanDevice
  \/ ScanDone
  \/ LoopEnter
  \/ LoopExit
  \/ PollEmpty
  \/ Handle
  \/ QuitAndExit

Spec == Init /\ [][Next]_vars

\* The program is a single thread that always takes its next step; SDL's
\* answers (what SDL_PollEvent returns) are not constrained.
FairSpec == Spec /\ WF_vars(Next)

TypeOK ==
  /\ pc \in {"init", "scan", "outer", "poll", "quit", "exited"}
  /\ i \in 0..MaxDevices
  /\ num_controllers \in Nat
  /\ num_joysticks \in Nat
  /\ done \in {0, 1}
  /\ exit_code \in {-1, EXIT_SUCCESS, EXIT_FAILURE}


\* ------------------------------------------- hat_to_string on every Uint8
\* A joystick with a hat is open and SDL delivers a hat event with an
\* arbitrary 8-bit value; the handler prints hat_to_string of it.
HatInit ==
  /\ pc = "poll"
  /\ i = 1
  /\ controllers = [k \in 0..(MAX_CONTROLLERS - 1) |-> NULL]
  /\ num_controllers = 0
  /\ joysticks = [k \in 0..(MAX_JOYSTICKS - 1) |->
                    IF k = 0 THEN SDL_Open(0, TRUE) ELSE NULL]
  /\ num_joysticks = 1
  /\ done = 0
  /\ e = NoEvent
  /\ dev = NoDev
  /\ wr = NoWrite
  /\ out = <<>>
  /\ err = <<>>
  /\ exit_code = -1

HatEvent ==
  /\ pc = "poll"
  /\ \E v \in Uint8 :
       LET ev == Event("SDL_JOYHATMOTION", 0, 0, v) IN
       /\ e' = ev
       /\ out' = JoyHatLines(ev)
  /\ UNCHANGED done
  /\ HandlerFrame

HatSpec == HatInit /\ [][HatEvent]_vars

\* =================================================================== claims

OpenJoysticks == {joysticks[k] : k \in 0..(num_joysticks - 1)}
OpenControllers == {controllers[k] : k \in 0..(num_controllers - 1)}
JoystickIDs == {SDL_JoystickInstanceID(h) : h \in OpenJoysticks}
ControllerIDs == {SDL_JoystickInstanceID(h) : h \in OpenControllers}

JoyTypes == {"SDL_JOYBUTTONDOWN", "SDL_JOYBUTTONUP", "SDL_JOYAXISMOTION",
             "SDL_JOYHATMOTION"}
ControllerTypes == {"SDL_CONTROLLERBUTTONDOWN", "SDL_CONTROLLERBUTTONUP",
                    "SDL_CONTROLLERAXISMOTION"}
LoopPcs == {"outer", "poll", "quit"}

\* A step of the inner loop that polled and dispatched the event e'
PollStep == pc = "poll" /\ pc' = "poll"

\* A step of the scan loop that examined device index i (dev' holds it)
ScanStep == pc = "scan" /\ dev'.index = i

IsQuitEvent(ev) ==
  \/ ev.type = "SDL_QUIT"
  \/ ev.type = "SDL_KEYDOWN" /\ ev.value = SDLK_ESCAPE

ExitedWith(code) == pc = "exited" /\ exit_code = code

\* ----- C7
HatBit(v, b) == (v \div b) % 2 = 1

\* The name of a hat position read off its bits UP=1, RIGHT=2, DOWN=4, LEFT=8
HatPositionName(v) ==
  LET up == HatBit(v, 1)
      right == HatBit(v, 2)
      down == HatBit(v, 4)
      left == HatBit(v, 8)
  IN IF v >= 16 \/ (up /\ down) \/ (left /\ right)
       THEN "<invalid value>"
       ELSE CASE left /\ up -> "left-up"
              [] left /\ down -> "left-down"
              [] right /\ up -> "right-up"
              [] right /\ down -> "right-down"
              [] left -> "left"
              [] right -> "right"
              [] up -> "up"
              [] down -> "down"
              [] OTHER -> "center"

NineHatPositions == {v \in Uint8 : HatPositionName(v) # "<invalid value>"}

\* C7: for every 8-bit hat value the printed position is the name of the
\* position when the value is one of the nine SDL hat positions (the nine
\* names being pairwise distinct) and "<invalid value>" for any other value.
C7_HatToStringTotal ==
  /\ Cardinality(NineHatPositions) = 9
  /\ Cardinality({hat_to_string(v) : v \in NineHatPositions}) = 9
  /\ (pc = "poll" /\ e.type = "SDL_JOYHATMOTION") =>
       /\ Len(out) = 1
       /\ out[1].val = HatPositionName(e.value)
       /\ (e.value \notin NineHatPositions <=> out[1].val = "<invalid value>")

C7_Witness ==
  /\ e.type = "SDL_JOYHATMOTION"
  /\ e.value = SDL_HAT_UP + SDL_HAT_DOWN
  /\ Len(out) = 1
  /\ out[1].val = "<invalid value>"

\* ----- C8
FindResultOK(r, id, table, num) ==
  /\ r \in -1..(num - 1)
  /\ r >= 0 => /\ SDL_JoystickInstanceID(table[r]) = id
               /\ \A k \in 0..(r - 1) : SDL_JoystickInstanceID(table[k]) # id
  /\ r = -1 <=> ~(\E k \in 0..(num - 1) : SDL_JoystickInstanceID(table[k]) = id)
  /\ num = 0 => r = -1

\* C8: find_joystick and find_controller return a value in -1..num-1, the
\* smallest open index whose instance ID is the one asked for, and -1
\* exactly when no open entry has it.
C8_FindIsLinearSearch ==
  \A id \in -1..MaxDevices :
    /\ FindResultOK(find_joystick(id), id, joysticks, num_joysticks)
    /\ FindResultOK(find_controller(id), id, controllers, num_controllers)

C8_Witness ==
  /\ pc = "poll"
  /\ e.type = "SDL_JOYAXISMOTION"
  /\ find_joystick(e.which) = 2
  /\ find_controller(e.which) = -1
  /\ num_controllers > 0
  /\ Len(out) = 1

\* ----- C5
C5_TablesBounded ==
  /\ num_controllers \in 0..4
  /\ num_joysticks \in 0..4
  /\ wr.table # "none" => wr.index \in 0..3

C5_FullTableSkips ==
  ScanStep =>
    /\ (dev'.mode = "OPEN_AS_CONTROLLER" /\ num_controllers = 4)
         => dev'.result = "skipped"
    /\ (dev'.mode = "OPEN_AS_JOYSTICK" /\ num_joysticks = 4)
         => dev'.result = "skipped"
    /\ dev'.result = "skipped" =>
         /\ UNCHANGED <<controllers, num_controllers, joysticks, num_joysticks>>
         /\ wr' = NoWrite
         /\ err' = <<>>
         /\ pc' = "scan"
         /\ exit_code' = -1
         /\ i' = i + 1

\* C5: both counts stay within 0..4, no table is written outside 0..3, and a
\* device whose mode's table is full is skipped: not opened, no error, and
\* the scan goes on with the next index.
C5_AtMostFour == []C5_TablesBounded /\ [][C5_FullTableSkips]_vars

C5_Witness ==
  /\ dev.result = "skipped"
  /\ dev.mode = "OPEN_AS_JOYSTICK"
  /\ num_joysticks = 4
  /\ pc = "scan"

\* ----- C10
Increasing(table, num) ==
  \A k \in 0..(num - 2) : table[k] < table[k + 1]

\* C10: the open entries of the two tables are distinct scanned devices, no
\* device is in both, each table is in scan order, and the two counts add up
\* to at most the number of indices scanned.
C10_OpenedOnce ==
  /\ \A h \in OpenJoysticks \cup OpenControllers : h # NULL /\ h - 1 \in 0..(i - 1)
  /\ Cardinality(OpenJoysticks) = num_joysticks
  /\ Cardinality(OpenControllers) = num_controllers
  /\ OpenJoysticks \cap OpenControllers = {}
  /\ Increasing(joysticks, num_joysticks)
  /\ Increasing(controllers, num_controllers)
  /\ num_controllers + num_joysticks <= i

C10_Witness ==
  /\ pc = "scan"
  /\ num_controllers >= 2
  /\ num_joysticks >= 2
  /\ dev.result = "joystick"


\* ----- C2
\* The mode the hardcoded IDs call for
ModeByIDs(vendor, product, is_gc) ==
  IF vendor = 12880
    THEN IF product = 4097 THEN "OPEN_AS_JOYSTICK"
         ELSE IF product = 4098 THEN "OPEN_AS_CONTROLLER"
         ELSE "rejected"
    ELSE IF is_gc THEN "OPEN_AS_CONTROLLER" ELSE "OPEN_AS_JOYSTICK"

C2_Step ==
  ScanStep =>
    LET want == ModeByIDs(dev'.vendor, dev'.product, dev'.is_gc)
        h == dev'.handle
    IN
    /\ want = "rejected" <=> dev'.result = "rejected"
    /\ want = "OPEN_AS_CONTROLLER" =>
         /\ dev'.result \in {"controller", "open_failed", "skipped"}
         /\ num_controllers < MAX_CONTROLLERS => dev'.result # "skipped"
         /\ UNCHANGED <<joysticks, num_joysticks>>
    /\ want = "OPEN_AS_JOYSTICK" =>
         /\ dev'.result \in {"joystick", "open_failed", "skipped"}
         /\ num_joysticks < MAX_JOYSTICKS => dev'.result # "skipped"
         /\ UNCHANGED <<controllers, num_controllers>>
    /\ dev'.result = "controller" =>
         /\ h # NULL /\ SDL_JoystickInstanceID(h) = i
         /\ controllers'[num_controllers] = h
         /\ num_controllers' = num_controllers + 1
    /\ dev'.result = "joystick" =>
         /\ h # NULL /\ SDL_JoystickInstanceID(h) = i
         /\ joysticks'[num_joysticks] = h
         /\ num_joysticks' = num_joysticks + 1

\* C2: the mode a scanned device is opened in is decided by the IDs: an
\* Atari Classic as a joystick, an Atari Modern as a game controller, any
\* other Atari product rejected; a non-Atari device as a game controller
\* exactly when SDL_IsGameController says so, whatever its product ID.
C2_ClassifiedByIDs == [][C2_Step]_vars

C2_Witness ==
  /\ dev.vendor # ATARI_MANUFACTURER_ID
  /\ dev.product = ATARI_CLASSIC_CONTROLLER_ID
  /\ dev.is_gc
  /\ dev.result = "controller"
  /\ controllers[num_controllers - 1] = dev.handle

\* ----- C3
C3_FailureIsFinal ==
  exit_code = EXIT_FAILURE =>
    /\ pc = "exited"
    /\ e = NoEvent
    /\ Len(err) = 1
    /\ \A k \in 1..Len(out) : out[k].text \notin {"button", "axis", "hat"}

C3_Step ==
  /\ (pc = "init" /\ pc' # "scan") =>
       /\ pc' = "exited" /\ exit_code' = EXIT_FAILURE
       /\ UNCHANGED <<i, controllers, num_controllers, joysticks,
                      num_joysticks, e>>
  /\ ScanStep =>
       /\ (dev'.vendor = 12880 /\ dev'.product \notin {4097, 4098})
            => dev'.result = "rejected"
       /\ dev'.result \in {"rejected", "open_failed"} =>
            /\ pc' = "exited" /\ exit_code' = EXIT_FAILURE
            /\ UNCHANGED <<i, controllers, num_controllers, joysticks,
                           num_joysticks, e>>
  /\ pc = "exited" => UNCHANGED vars

\* C3: a failed SDL_Init, an Atari device with an unknown product (full
\* tables or not) and a failed open each exit with EXIT_FAILURE on the
\* spot: nothing more is scanned or opened, no event is polled or logged.
C3_FailuresExit == []C3_FailureIsFinal /\ [][C3_Step]_vars

C3_Witness ==
  /\ ExitedWith(EXIT_FAILURE)
  /\ dev.result = "rejected"
  /\ num_joysticks = MAX_JOYSTICKS
  /\ dev.index = i

\* ----- C4
\* The lines an event must produce, given the open devices
LinesFor(ev, lines) ==
  /\ Len(lines) <= 1
  /\ ev.type \in JoyTypes =>
       /\ Len(lines) = 1 <=> ev.which \in JoystickIDs
       /\ Len(lines) = 1 =>
            /\ \E h \in OpenJoysticks :
                 /\ SDL_JoystickInstanceID(h) = ev.which
                 /\ lines[1].name = SDL_DeviceName(h)
            /\ lines[1].text =
                 (CASE ev.type = "SDL_JOYAXISMOTION" -> "axis"
                    [] ev.type = "SDL_JOYHATMOTION" -> "hat"
                    [] OTHER -> "button")
       /\ ev.which \in ControllerIDs => lines = <<>>
  /\ ev.type \in ControllerTypes =>
       /\ Len(lines) = 1 <=> ev.which \in ControllerIDs
       /\ Len(lines) = 1 =>
            /\ \E h \in OpenControllers :
                 /\ SDL_JoystickInstanceID(h) = ev.which
                 /\ lines[1].name = SDL_DeviceName(h)
            /\ lines[1].text =
                 (IF ev.type = "SDL_CONTROLLERAXISMOTION" THEN "axis"
                                                          ELSE "button")
  /\ ev.type \notin JoyTypes \cup ControllerTypes => lines = <<>>
  /\ (Len(lines) = 1 /\ lines[1].text = "button") =>
       /\ lines[1].val = "DOWN" <=>
            ev.type \in {"SDL_JOYBUTTONDOWN", "SDL_CONTROLLERBUTTONDOWN"}
       /\ lines[1].val = "UP" <=>
            ev.type \in {"SDL_JOYBUTTONUP", "SDL_CONTROLLERBUTTONUP"}

\* C4: a joystick event is logged with exactly one line, naming its
\* joystick, iff its instance ID is that of an open joystick; a controller
\* event iff its instance ID is that of an open controller; nothing else is
\* logged; a button line says DOWN for the down type and UP otherwise.
C4_LoggedIffOpen == [][PollStep => LinesFor(e', out')]_vars

C4_Witness ==
  /\ pc = "poll"
  /\ e.type = "SDL_JOYHATMOTION"
  /\ e.which \in JoystickIDs
  /\ Len(out) = 1
  /\ out[1].name = SDL_JoystickNameForIndex(e.which)
  /\ num_controllers > 0

\* ----- C6
C6_Step ==
  /\ pc \in LoopPcs =>
       UNCHANGED <<controllers, num_controllers, joysticks, num_joysticks>>
  /\ (PollStep /\ e'.which \notin JoystickIDs \cup ControllerIDs) =>
       out' = <<>>

\* C6: no step of the event loop changes the tables or the counts, so an
\* event of a device that was not opened by the scan is never logged.
C6_NoHotPlug == [][C6_Step]_vars

C6_Witness ==
  /\ pc = "poll"
  /\ e.type = "SDL_JOYDEVICEADDED"
  /\ e.which \notin JoystickIDs \cup ControllerIDs
  /\ e.which < i
  /\ num_joysticks < MAX_JOYSTICKS

\* ----- C9
C9_Step ==
  /\ (pc \in LoopPcs /\ done = 1) => done' = 1
  /\ (pc = "poll" /\ pc' # "poll") =>
       /\ pc' = "outer"
       /\ out' = <<>>
       /\ e' = e
  /\ (pc \in {"outer", "poll"} /\ pc' = "quit") => (pc = "outer" /\ done = 1)
  /\ (pc = "outer" /\ done = 1) => pc' = "quit"
  /\ (PollStep /\ done = 1) =>
       /\ LinesFor(e', out')
       /\ exit_code' = -1

\* C9: in the loop done never goes back to 0; the loop is left only when
\* SDL_PollEvent reports no event after done was set, and at the first such
\* moment; events polled before that are still dispatched and logged.
C9_DrainBeforeExit == [][C9_Step]_vars

C9_Witness ==
  /\ pc = "poll"
  /\ done = 1
  /\ ~IsQuitEvent(e)
  /\ Len(out) = 1

\* ----- C1
C1_Safety ==
  /\ (PollStep /\ IsQuitEvent(e')) => done' = 1
  /\ (pc \in LoopPcs /\ done = 0 /\ done' = 1) => (PollStep /\ IsQuitEvent(e'))
  /\ (pc \in LoopPcs /\ pc' \notin {"outer", "poll"}) => done = 1
  /\ (pc \in LoopPcs /\ pc' = "exited") => exit_code' = EXIT_SUCCESS

====
